---- MODULE Spec2Model ----
(***************************************************************************)
(* restore_links.py: load hrefInventory.txt into short_to_href, walk the   *)
(* tree, and in every .md file rewrite [label](short) to [label](href).    *)
(*                                                                         *)
(* Text is a sequence of one-character strings.  Files are read and        *)
(* written whole; the disk is the function fs.                             *)
(***************************************************************************)
EXTENDS Integers, Sequences, FiniteSets, TLC

(***************************************************************************)
(* Bounds of the model.                                                    *)
(***************************************************************************)
\* Longest mapping file, in lines.
MaxLines == 2
\* Longest document, in segments of SegSet.
MaxSegs == 1
\* Most characters that reach the disk in a write that fails.
MaxPartial == 1

(***************************************************************************)
(* Text helpers (Python str methods used by the program).                  *)
(***************************************************************************)
\* s[i..j], empty when j < i
Slice(s, i, j) == IF j < i THEN << >> ELSE SubSeq(s, i, j)

\* does t occur in s at position i
StartsAt(s, t, i) ==
    /\ i >= 1
    /\ i + Len(t) - 1 <= Len(s)
    /\ \A k \in 1..Len(t) : s[i + k - 1] = t[k]

\* str.endswith
EndsWith(s, t) == Len(t) <= Len(s) /\ StartsAt(s, t, Len(s) - Len(t) + 1)

\* the two-character delimiter of a mapping line
Delim == << "|", "|" >>

\* characters str.strip() removes
Whitespace == { " ", "\n" }

\* '||' in line
HasDelim(line) == \E i \in 1..Len(line) : StartsAt(line, Delim, i)

\* line.strip()
Strip(s) ==
    LET keep == { i \in 1..Len(s) : s[i] \notin Whitespace }
    IN  IF keep = {} THEN << >>
        ELSE LET lo == CHOOSE i \in keep : \A j \in keep : i <= j
                 hi == CHOOSE i \in keep : \A j \in keep : j <= i
             IN  SubSeq(s, lo, hi)

\* s.split('||'): every non-overlapping occurrence, left to right, separates
\* two parts, so a line with n occurrences gives n + 1 parts
RECURSIVE SplitFrom(_, _, _)
SplitFrom(s, start, i) ==
    IF i > Len(s) THEN << Slice(s, start, Len(s)) >>
    ELSE IF StartsAt(s, Delim, i)
         THEN << Slice(s, start, i - 1) >> \o SplitFrom(s, i + Len(Delim), i + Len(Delim))
         ELSE SplitFrom(s, start, i + 1)

Split(s) == SplitFrom(s, 1, 1)

(***************************************************************************)
(* short_to_href: a Python dict, kept as the sequence of its               *)
(* <<short, href>> items in insertion order.                               *)
(***************************************************************************)
Keys(d) == { d[i][1] : i \in 1..Len(d) }

\* d[short], for short in Keys(d)
Get(d, short) == d[CHOOSE i \in 1..Len(d) : d[i][1] = short][2]

\* the same, a key already in d keeping its first value
DictSetFirstWins(d, short, href) ==
    IF short \in Keys(d) THEN d ELSE Append(d, << short, href >>)

\* d[short] = href, overwriting and keeping the position of a key already in d
DictSet(d, short, href) ==
    IF short \in Keys(d)
    THEN [ i \in 1..Len(d) |-> IF d[i][1] = short THEN << short, href >> ELSE d[i] ]
    ELSE Append(d, << short, href >>)

(***************************************************************************)
(* The mapping loader, lines 16-20.  The result is [ok, map]: ok is FALSE  *)
(* when the tuple unpacking of line 19 raises ValueError.                  *)
(***************************************************************************)
RECURSIVE LoadFrom(_, _, _)
LoadFrom(lines, i, d) ==
    IF i > Len(lines) THEN [ ok |-> TRUE, map |-> d ]
    ELSE IF HasDelim(lines[i])
         THEN LET parts == Split(Strip(lines[i]))
              IN  IF Len(parts) # 2
                  THEN [ ok |-> FALSE, map |-> d ]
                  ELSE LoadFrom(lines, i + 1, DictSet(d, parts[1], parts[2]))
         ELSE LoadFrom(lines, i + 1, d)

LoadMapping(lines) == LoadFrom(lines, 1, << >>)

(***************************************************************************)
(* The replacement template of line 37, r'\1(' + href + ')', as re.sub     *)
(* expands it (re's parse_template).  The hrefs of the model hold no digit *)
(* and no "g", so the only group reference is the leading \1.              *)
(***************************************************************************)
Backslash == "\\"

\* letters with an entry in the template parser's escape table
EscapeLetters == { "a", "b", "f", "n", "r", "t", "v" }

AsciiLetters ==
    { "a", "b", "c", "d", "e", "f", "g", "h", "i", "j", "k", "l", "m",
      "n", "o", "p", "q", "r", "s", "t", "u", "v", "w", "x", "y", "z",
      "A", "B", "C", "D", "E", "F", "G", "H", "I", "J", "K", "L", "M",
      "N", "O", "P", "Q", "R", "S", "T", "U", "V", "W", "X", "Y", "Z" }

\* the character an escape \c of the table stands for
ControlChar(c) ==
    CASE c = "a" -> "<BEL>"
      [] c = "b" -> "<BS>"
      [] c = "f" -> "<FF>"
      [] c = "n" -> "\n"
      [] c = "r" -> "<CR>"
      [] c = "t" -> "<TAB>"
      [] c = "v" -> "<VT>"

\* expansion of template t from position i with group 1 = g;
\* ok is FALSE where the parser raises re.error
RECURSIVE ExpandFrom(_, _, _)
ExpandFrom(t, i, g) ==
    IF i > Len(t) THEN [ ok |-> TRUE, text |-> << >> ]
    ELSE IF t[i] # Backslash
    THEN LET rest == ExpandFrom(t, i + 1, g)
         IN  [ ok |-> rest.ok, text |-> << t[i] >> \o rest.text ]
    ELSE IF i = Len(t) THEN [ ok |-> FALSE, text |-> << >> ]
    ELSE LET c == t[i + 1]
             rest == ExpandFrom(t, i + 2, g)
         IN  IF c = "1" THEN [ ok |-> rest.ok, text |-> g \o rest.text ]
             ELSE IF c = Backslash
             THEN [ ok |-> rest.ok, text |-> << Backslash >> \o rest.text ]
             ELSE IF c \in EscapeLetters
             THEN [ ok |-> rest.ok, text |-> << ControlChar(c) >> \o rest.text ]
             ELSE IF c \in AsciiLetters THEN [ ok |-> FALSE, text |-> << >> ]
             ELSE [ ok |-> rest.ok, text |-> << Backslash, c >> \o rest.text ]

\* r'\1(' + href + ')'
Template(href) == << Backslash, "1", "(" >> \o href \o << ")" >>

(***************************************************************************)
(* The pattern of line 36, (\[.*?\])\( + re.escape(short) + \), and        *)
(* pattern.sub of line 37.                                                 *)
(***************************************************************************)
\* \( + re.escape(short) + \) : the token, literally, between parentheses
Target(short) == << "(" >> \o short \o << ")" >>

\* positions j of a "]" that closes group 1 of a match starting at the "[" at i:
\* .*? matches any characters but a newline, "]" included
LabelEnds(content, i, short) ==
    { j \in (i + 1)..Len(content) :
        /\ content[j] = "]"
        /\ StartsAt(content, Target(short), j + 1)
        /\ \A k \in (i + 1)..(j - 1) : content[k] # "\n" }

MatchesAt(content, i, short) ==
    content[i] = "[" /\ LabelEnds(content, i, short) # {}

\* the lazy .*? stops at the first "]" that lets the rest of the pattern match
LabelEnd(content, i, short) ==
    CHOOSE j \in LabelEnds(content, i, short) :
        \A k \in LabelEnds(content, i, short) : j <= k

\* leftmost non-overlapping matches from position pos on, each replaced by the
\* expanded template
RECURSIVE SubFrom(_, _, _, _)
SubFrom(content, pos, short, href) ==
    LET starts == { i \in pos..Len(content) : MatchesAt(content, i, short) }
    IN  IF starts = {} THEN Slice(content, pos, Len(content))
        ELSE LET i == CHOOSE s \in starts : \A s2 \in starts : s <= s2
                 j == LabelEnd(content, i, short)
                 e == j + Len(Target(short))
             IN  Slice(content, pos, i - 1)
                   \o ExpandFrom(Template(href), 1, SubSeq(content, i, j)).text
                   \o SubFrom(content, e + 1, short, href)

\* pattern.sub(template, content); the template is compiled before the search,
\* so a bad template raises whether or not the pattern occurs
Sub(short, href, content) ==
    IF ~ExpandFrom(Template(href), 1, << >>).ok
    THEN [ ok |-> FALSE, text |-> content ]
    ELSE [ ok |-> TRUE, text |-> SubFrom(content, 1, short, href) ]

\* lines 33-37: the items of short_to_href applied one after the other, each to
\* the result of the one before
RECURSIVE ApplyFrom(_, _, _)
ApplyFrom(d, i, content) ==
    IF i > Len(d) THEN [ ok |-> TRUE, text |-> content ]
    ELSE LET r == Sub(d[i][1], d[i][2], content)
         IN  IF r.ok THEN ApplyFrom(d, i + 1, r.text) ELSE r

ApplyAll(d, content) == ApplyFrom(d, 1, content)

(***************************************************************************)
(* Inputs: the mapping file and the tree the program runs in.              *)
(***************************************************************************)
\* all sequences over S of length at most n
SeqsUpTo(S, n) == UNION { [ 1..k -> S ] : k \in 0..n }

RECURSIVE Flatten(_)
Flatten(ss) == IF ss = << >> THEN << >> ELSE Head(ss) \o Flatten(Tail(ss))

\* lines of hrefInventory.txt as readlines() returns them
LineAB      == << "a", "|", "|", "b", "\n" >>
LineBC      == << "b", "|", "|", "c", "\n" >>
LineAA      == << " ", "a", "|", "|", "a", " ", "\n" >>
LineNoDelim == << "a", "|", "b", "\n" >>
LineMulti   == << "a", "|", "|", "b", "|", "|", "c", "\n" >>
LineBadEsc  == << "b", "|", "|", "c", "\\", "d", "\n" >>

LineSet == { LineAB, LineBC, LineAA, LineNoDelim, LineMulti, LineBadEsc }

\* the mapping file: absent, or present with its lines
Inventories ==
    { [ exists |-> FALSE, lines |-> << >> ] }
      \cup { [ exists |-> TRUE, lines |-> ls ] : ls \in SeqsUpTo(LineSet, MaxLines) }

\* pieces of markdown text
SegLinkA   == << "[", "t", "]", "(", "a", ")" >>
SegLinkB   == << "[", "t", "]", "(", "b", ")" >>
SegMixed   == << "[", "t", "]", "(", "a", ")", " ", "a", " ", "(", "a", ")",
                 "[", "u", "]", "(", "b", ")" >>
SegNewline == << "[", "t", "\n", "]", "(", "a", ")" >>

SegSet == { SegLinkA, SegLinkB, SegMixed, SegNewline }

Docs == { Flatten(ss) : ss \in SeqsUpTo(SegSet, MaxSegs) }

\* the files os.walk('.') yields: root and name
FileX == [ root |-> << "." >>, file |-> << "x", ".", "m", "d" >> ]
FileY == [ root |-> << ".", "/", "d" >>, file |-> << "y", ".", "m", "d" >> ]
FileN == [ root |-> << "." >>, file |-> << "m", "d", ".", "t", "x", "t" >> ]

Files == { FileX, FileY, FileN }

\* 'md' in file
IsMdLoose(f) == \E i \in 1..Len(f.file) : StartsAt(f.file, << "m", "d" >>, i)

\* file.endswith('.md')
IsMd(f) == EndsWith(f.file, << ".", "m", "d" >>)

\* href_inventory_path
InventoryPath ==
    [ root |-> << >>,
      file |-> << "h", "r", "e", "f", "I", "n", "v", "e", "n", "t", "o", "r", "y",
                  ".", "t", "x", "t" >> ]

NoFile == [ root |-> << >>, file |-> << >> ]

(***************************************************************************)
(* State.                                                                  *)
(*   inventory      the mapping file on disk (never written)               *)
(*   fs             content of every file of the tree, on disk             *)
(*   pc             position of the run                                    *)
(*   short_to_href  the loaded mapping                                     *)
(*   todo           files os.walk has not yielded yet                      *)
(*   file_path      the file being rewritten, NoFile outside lines 39-45   *)
(*   new_content    its substituted content                                *)
(*   log            what the run printed, <<message, path>>; an exception  *)
(*                  nothing catches prints its traceback                   *)
(* History, for the properties:                                            *)
(*   orig, after1   fs at the start of the first run, and at its end       *)
(*   opens          [file -> number of times it was opened for reading]    *)
(*   writes         [file -> number of attempts to open it for writing]    *)
(*   iores          [file -> what became of it in the current run]         *)
(*   run            1 in the first run, 2 in the second                    *)
(***************************************************************************)
VARIABLES inventory, fs, pc, short_to_href, todo, file_path, new_content, log,
          orig, after1, opens, writes, iores, run

vars == << inventory, fs, pc, short_to_href, todo, file_path, new_content, log,
           orig, after1, opens, writes, iores, run >>

Init ==
    /\ inventory \in Inventories
    /\ \E x \in Docs :
         fs = [ f \in Files |-> IF f = FileX THEN x
                                 ELSE IF f = FileY THEN SegLinkB ELSE SegLinkA ]
    /\ pc = "start"
    /\ short_to_href = << >>
    /\ todo = {}
    /\ file_path = NoFile
    /\ new_content = << >>
    /\ log = {}
    /\ orig = fs
    /\ after1 = fs
    /\ opens = [ f \in Files |-> 0 ]
    /\ writes = [ f \in Files |-> 0 ]
    /\ iores = [ f \in Files |-> "none" ]
    /\ run = 1

\* the same without the return of line 11
MissingInventoryWalk ==
    /\ pc = "start"
    /\ ~inventory.exists
    /\ log' = log \cup { << "Error: not found", InventoryPath >> }
    /\ pc' = "walk"
    /\ todo' = Files
    /\ UNCHANGED << inventory, fs, short_to_href, file_path, new_content,
                    orig, after1, opens, writes, iores, run >>

\* lines 9-11: no mapping file; the error is printed and the function returns
MissingInventory ==
    /\ pc = "start"
    /\ ~inventory.exists
    /\ log' = log \cup { << "Error: not found", InventoryPath >> }
    /\ pc' = "done"
    /\ UNCHANGED << inventory, fs, short_to_href, todo, file_path, new_content,
                    orig, after1, opens, writes, iores, run >>

\* lines 13-14 raise: the file exists and cannot be read; nothing catches it
InventoryUnreadable ==
    /\ pc = "start"
    /\ inventory.exists
    /\ pc' = "crashed"
    /\ log' = log \cup { << "Traceback: OSError", InventoryPath >> }
    /\ UNCHANGED << inventory, fs, short_to_href, todo, file_path, new_content,
                    orig, after1, opens, writes, iores, run >>

\* lines 13-20: the mapping is loaded, or line 19 raises ValueError
LoadInventory ==
    /\ pc = "start"
    /\ inventory.exists
    /\ LET r == LoadMapping(inventory.lines)
       IN  /\ short_to_href' = r.map
           /\ pc' = IF r.ok THEN "walk" ELSE "crashed"
           /\ todo' = IF r.ok THEN Files ELSE {}
           /\ log' = IF r.ok THEN log
                     ELSE log \cup { << "Traceback: ValueError", InventoryPath >> }
    /\ UNCHANGED << inventory, fs, file_path, new_content,
                    orig, after1, opens, writes, iores, run >>

\* lines 23-24: a file whose name does not end in .md
SkipFile(f) ==
    /\ pc = "walk"
    /\ f \in todo
    /\ ~IsMd(f)
    /\ todo' = todo \ { f }
    /\ UNCHANGED << inventory, fs, pc, short_to_href, file_path, new_content, log,
                    orig, after1, opens, writes, iores, run >>

\* lines 26-31: open or read raises
ReadFails(f) ==
    /\ pc = "walk"
    /\ f \in todo
    /\ IsMd(f)
    /\ todo' = todo \ { f }
    /\ opens' = [ opens EXCEPT ![f] = @ + 1 ]
    /\ log' = log \cup { << "Could not read file", f >> }
    /\ iores' = [ iores EXCEPT ![f] = "readfail" ]
    /\ UNCHANGED << inventory, fs, pc, short_to_href, file_path, new_content,
                    orig, after1, writes, run >>

\* the content lines 33-37 start from
ReadContent(f) == fs[f]

\* line 39: new_content != content
ChangedAlways(new, old) == TRUE

Changed(new, old) == new # old

\* lines 26-39: the file is read and every item of the mapping applied; re.error
\* from a bad template is not caught
ReadAndSubstitute(f) ==
    /\ pc = "walk"
    /\ f \in todo
    /\ IsMd(f)
    /\ todo' = todo \ { f }
    /\ opens' = [ opens EXCEPT ![f] = @ + 1 ]
    /\ LET content == ReadContent(f)
           r == ApplyAll(short_to_href, content)
       IN  IF ~r.ok
           THEN /\ pc' = "crashed"
                /\ log' = log \cup { << "Traceback: re.error", f >> }
                /\ iores' = [ iores EXCEPT ![f] = "read" ]
                /\ UNCHANGED << file_path, new_content >>
           ELSE IF Changed(r.text, content)
           THEN /\ pc' = "write"
                /\ file_path' = f
                /\ new_content' = r.text
                /\ iores' = [ iores EXCEPT ![f] = "read" ]
                /\ UNCHANGED log
           ELSE /\ iores' = [ iores EXCEPT ![f] = "unchanged" ]
                /\ UNCHANGED << pc, file_path, new_content, log >>
    /\ UNCHANGED << inventory, fs, short_to_href, orig, after1, writes, run >>

\* line 41 raises: the file cannot be opened for writing and is left as it was
OpenForWriteFails ==
    /\ pc = "write"
    /\ pc' = "walk"
    /\ log' = log \cup { << "Could not write to file", file_path >> }
    /\ iores' = [ iores EXCEPT ![file_path] = "openfail" ]
    /\ writes' = [ writes EXCEPT ![file_path] = @ + 1 ]
    /\ file_path' = NoFile
    /\ new_content' = << >>
    /\ UNCHANGED << inventory, fs, short_to_href, todo, orig, after1, opens, run >>

\* line 41: open(file_path, 'w') truncates the file
OpenForWrite ==
    /\ pc = "write"
    /\ pc' = "opened"
    /\ fs' = [ fs EXCEPT ![file_path] = << >> ]
    /\ writes' = [ writes EXCEPT ![file_path] = @ + 1 ]
    /\ iores' = [ iores EXCEPT ![file_path] = "opened" ]
    /\ UNCHANGED << inventory, short_to_href, todo, file_path, new_content, log,
                    orig, after1, opens, run >>

\* lines 42-43: the content reaches the disk and the file is closed
WriteContent ==
    /\ pc = "opened"
    /\ pc' = "walk"
    /\ fs' = [ fs EXCEPT ![file_path] = new_content ]
    /\ log' = log \cup { << "Restored links in", file_path >> }
    /\ iores' = [ iores EXCEPT ![file_path] = "written" ]
    /\ file_path' = NoFile
    /\ new_content' = << >>
    /\ UNCHANGED << inventory, short_to_href, todo, orig, after1, opens, writes, run >>

\* lines 42, 44-45: the write or the flush at close raises (disk full, I/O
\* error) after a proper prefix of the content, of at most MaxPartial
\* characters, has reached the disk
WriteFails ==
    /\ pc = "opened"
    /\ pc' = "walk"
    /\ \E k \in 0..(Len(new_content) - 1) :
         /\ k <= MaxPartial
         /\ fs' = [ fs EXCEPT ![file_path] = Slice(new_content, 1, k) ]
    /\ log' = log \cup { << "Could not write to file", file_path >> }
    /\ iores' = [ iores EXCEPT ![file_path] = "writefail" ]
    /\ file_path' = NoFile
    /\ new_content' = << >>
    /\ UNCHANGED << inventory, short_to_href, todo, orig, after1, opens, writes, run >>

\* os.walk is exhausted and restore_links returns
Finish ==
    /\ pc = "walk"
    /\ todo = {}
    /\ pc' = "done"
    /\ UNCHANGED << inventory, fs, short_to_href, todo, file_path, new_content, log,
                    orig, after1, opens, writes, iores, run >>

\* the program is run a second time on the tree the first run left
Rerun ==
    /\ pc = "done"
    /\ run = 1
    /\ run' = 2
    /\ pc' = "start"
    /\ after1' = fs
    /\ short_to_href' = << >>
    /\ opens' = [ f \in Files |-> 0 ]
    /\ writes' = [ f \in Files |-> 0 ]
    /\ iores' = [ f \in Files |-> "none" ]
    /\ UNCHANGED << inventory, fs, todo, file_path, new_content, log, orig >>

Next ==
    \/ MissingInventory
    \/ InventoryUnreadable
    \/ LoadInventory
    \/ \E f \in Files : SkipFile(f)
    \/ \E f \in Files : ReadFails(f)
    \/ \E f \in Files : ReadAndSubstitute(f)
    \/ OpenForWriteFails
    \/ OpenForWrite
    \/ WriteContent
    \/ WriteFails
    \/ Finish

\* one run of restore_links
Spec == Init /\ [][Next]_vars

NextTwice == Next \/ Rerun

\* two runs in succession
SpecTwice == Init /\ [][NextTwice]_vars

(***************************************************************************)
(* Vocabulary of the properties, stated without the operators of the       *)
(* program above.                                                          *)
(***************************************************************************)
\* the markdown documents of the tree
MdFiles == { FileX, FileY }

\* the run is over: restore_links returned, or an exception ended it
Terminated == pc \in { "done", "crashed" }

\* the run printed a read or write failure, or a traceback
Failures ==
    { e \in log : e[1] \in { "Could not read file", "Could not write to file",
                              "Traceback: OSError", "Traceback: ValueError",
                              "Traceback: re.error" } }

\* positions of the delimiter in a trimmed line
DelimPositions(line) ==
    { i \in 1..Len(Strip(line)) : StartsAt(Strip(line), Delim, i) }

\* a short||url record: the delimiter occurs once
IsRecord(line) == Cardinality(DelimPositions(line)) = 1

FirstDelim(line) ==
    CHOOSE i \in DelimPositions(line) : \A j \in DelimPositions(line) : i <= j

\* the fields of a line at the first occurrence of the delimiter
TokenOf(line) == Slice(Strip(line), 1, FirstDelim(line) - 1)

UrlOf(line) == Slice(Strip(line), FirstDelim(line) + 2, Len(Strip(line)))

\* every line is a record or has no delimiter
WellFormed(lines) ==
    \A i \in 1..Len(lines) : IsRecord(lines[i]) \/ DelimPositions(lines[i]) = {}

\* the mapping file was opened and its lines went through the loader
LoaderRan ==
    /\ inventory.exists
    /\ pc # "start"
    /\ << "Traceback: OSError", InventoryPath >> \notin log

(***************************************************************************)
(* C1.  When hrefInventory.txt does not exist, the run reports the missing *)
(* path and ends; no document is opened for reading or for writing and     *)
(* every file keeps its content.                                           *)
(***************************************************************************)
C1_MissingMappingTouchesNothing ==
    (~inventory.exists /\ pc # "start")
      => /\ pc = "done"
         /\ log = { << "Error: not found", InventoryPath >> }
         /\ fs = orig
         /\ \A f \in Files : opens[f] = 0 /\ writes[f] = 0

\* the run ended on the missing mapping file, in a tree whose document holds
\* links
C1_Witness ==
    /\ ~inventory.exists
    /\ pc = "done"
    /\ orig[FileX] = SegMixed

(***************************************************************************)
(* C6.  For a mapping file whose lines are records or have no delimiter,   *)
(* the loaded mapping has exactly one entry per token that a record        *)
(* declares, the entry holds the URL of the last record declaring the      *)
(* token, and the loader raises nothing.                                   *)
(***************************************************************************)
C6_LastRecordWins ==
    (LoaderRan /\ WellFormed(inventory.lines))
      => LET lines == inventory.lines
             recs == { i \in 1..Len(lines) : IsRecord(lines[i]) }
         IN  /\ << "Traceback: ValueError", InventoryPath >> \notin log
             /\ Keys(short_to_href) = { TokenOf(lines[i]) : i \in recs }
             /\ Len(short_to_href) = Cardinality(Keys(short_to_href))
             /\ \A i \in recs :
                  (\A j \in recs : j > i => TokenOf(lines[j]) # TokenOf(lines[i]))
                    => Get(short_to_href, TokenOf(lines[i])) = UrlOf(lines[i])

\* a token declared twice with different URLs was loaded
C6_Witness ==
    /\ LoaderRan
    /\ inventory.lines = << LineAB, LineAA >>
    /\ short_to_href = << << << "a" >>, << "a" >> >> >>

(***************************************************************************)
(* C9 as claimed.  Every line holding the delimiter is split at its first  *)
(* occurrence into token and URL, however often the delimiter occurs, and  *)
(* the loader ends with a mapping: once the mapping file was read, no      *)
(* exception ends the run before the walk and every such line has its      *)
(* entry.                                                                  *)
(***************************************************************************)
C9_SplitAtFirstDelimiter ==
    LoaderRan
      => /\ << "Traceback: ValueError", InventoryPath >> \notin log
         /\ \A i \in 1..Len(inventory.lines) :
              DelimPositions(inventory.lines[i]) # {}
                => TokenOf(inventory.lines[i]) \in Keys(short_to_href)

(***************************************************************************)
(* Links of a document, read off the text: a "[", a label on one line,     *)
(* "]" and, right after it, a target between parentheses.                  *)
(***************************************************************************)
\* positions of a "]" that ends a label and is followed by (tok), tok a key
LinkEnds(c, keys) ==
    { j \in 1..Len(c) :
        /\ c[j] = "]"
        /\ \E i \in 1..(j - 1) :
             c[i] = "[" /\ \A k \in (i + 1)..(j - 1) : c[k] # "\n"
        /\ \E tok \in keys : StartsAt(c, << "(" >> \o tok \o << ")" >>, j + 1) }

\* some [label](token) with a mapped token occurs in c
HasMappedLink(c, keys) == LinkEnds(c, keys) # {}

\* the key that is the target of the link whose label ends at j
KeyAt(c, keys, j) ==
    CHOOSE tok \in keys : StartsAt(c, << "(" >> \o tok \o << ")" >>, j + 1)

\* c with the target of every link on a mapped token replaced by the URL the
\* mapping d gives that token, the URL copied as it is, in one pass
RECURSIVE ExpectedFrom(_, _, _)
ExpectedFrom(c, d, pos) ==
    LET ends == { j \in LinkEnds(c, Keys(d)) : j >= pos }
    IN  IF ends = {} THEN Slice(c, pos, Len(c))
        ELSE LET j == CHOOSE e \in ends : \A e2 \in ends : e <= e2
                 tok == KeyAt(c, Keys(d), j)
             IN  Slice(c, pos, j) \o << "(" >> \o Get(d, tok) \o << ")" >>
                   \o ExpectedFrom(c, d, j + Len(tok) + 3)

Expected(c, d) == ExpectedFrom(c, d, 1)

\* c without its link targets: every "(...)" that follows a "]" is cut out
RECURSIVE OutsideTargetsFrom(_, _)
OutsideTargetsFrom(c, i) ==
    IF i > Len(c) THEN << >>
    ELSE LET closes == { k \in (i + 2)..Len(c) : c[k] = ")" }
         IN  IF c[i] = "]" /\ StartsAt(c, << "(" >>, i + 1) /\ closes # {}
             THEN << "]" >> \o OutsideTargetsFrom(c,
                      (CHOOSE k \in closes : \A k2 \in closes : k <= k2) + 1)
             ELSE << c[i] >> \o OutsideTargetsFrom(c, i + 1)

OutsideTargets(c) == OutsideTargetsFrom(c, 1)

\* the link targets of c, in order
RECURSIVE TargetsFrom(_, _)
TargetsFrom(c, i) ==
    IF i > Len(c) THEN << >>
    ELSE LET closes == { k \in (i + 2)..Len(c) : c[k] = ")" }
         IN  IF c[i] = "]" /\ StartsAt(c, << "(" >>, i + 1) /\ closes # {}
             THEN LET k == CHOOSE k1 \in closes : \A k2 \in closes : k1 <= k2
                  IN  << Slice(c, i + 2, k - 1) >> \o TargetsFrom(c, k + 1)
             ELSE TargetsFrom(c, i + 1)

Targets(c) == TargetsFrom(c, 1)

\* proper prefixes of a text
ProperPrefixes(c) == { Slice(c, 1, k) : k \in 0..(Len(c) - 1) }

(***************************************************************************)
(* C2 as claimed.  After a run that met no failure, a document holds       *)
(* [text](URL) in the place of every [text](TOKEN) it held on a key of the *)
(* mapping, URL being exactly the value of TOKEN and the label unchanged,  *)
(* whatever the other entries are and in whatever order they are applied.  *)
(***************************************************************************)
C2_TargetBecomesMappedUrl ==
    (pc = "done" /\ Failures = {})
      => \A f \in MdFiles :
           iores[f] \in { "written", "unchanged" }
             => fs[f] = Expected(orig[f], short_to_href)

(***************************************************************************)
(* C3 as claimed.  Idempotence: when neither run meets a failure, the      *)
(* second of two runs in succession opens no file for writing and leaves   *)
(* every document as the first run left it.                                *)
(***************************************************************************)
C3_SecondRunChangesNothing ==
    (run = 2 /\ pc = "done" /\ Failures = {})
      => /\ fs = after1
         /\ \A f \in Files : writes[f] = 0

(***************************************************************************)
(* C4 as claimed.  In a run that meets no failure a document is written   *)
(* if and only if some [label](token) with a mapped token occurs in it:    *)
(* without one it is never opened for writing and keeps its content, with  *)
(* one it is written exactly once, with the fully substituted content.     *)
(***************************************************************************)
C4_WrittenIffLinkOccurs ==
    (pc = "done" /\ Failures = {})
      => \A f \in MdFiles :
           IF HasMappedLink(orig[f], Keys(short_to_href))
           THEN writes[f] = 1 /\ fs[f] = ApplyAll(short_to_href, orig[f]).text
           ELSE writes[f] = 0 /\ fs[f] = orig[f]

(***************************************************************************)
(* C4 amended.  In a run a document is opened for writing if and only if   *)
(* it was read and the content obtained by applying every mapping entry    *)
(* in turn differs from the content read, and then once; a document in     *)
(* which no [label](token) with a mapped token occurs is never opened for  *)
(* writing and keeps its content; a document whose write succeeded holds   *)
(* the fully substituted content.                                          *)
(***************************************************************************)
C4_WrittenIffContentChanges ==
    Terminated
      => \A f \in MdFiles :
           LET r == ApplyAll(short_to_href, orig[f])
           IN  /\ writes[f] <= 1
               /\ writes[f] = 1
                    <=> /\ iores[f] \notin { "none", "readfail" }
                        /\ r.ok
                        /\ r.text # orig[f]
               /\ ~HasMappedLink(orig[f], Keys(short_to_href))
                    => writes[f] = 0 /\ fs[f] = orig[f]
               /\ iores[f] = "written" => fs[f] = r.text

\* a run ended in which one document holds a link on a mapped token and was
\* not written, its substituted content being its content, and another one
\* was written
C4_Witness ==
    /\ pc = "done"
    /\ HasMappedLink(orig[FileX], Keys(short_to_href))
    /\ iores[FileX] = "unchanged"
    /\ writes[FileX] = 0
    /\ iores[FileY] = "written"
    /\ fs[FileY] # orig[FileY]

(***************************************************************************)
(* C5 as claimed.  After a run every character of a document outside the   *)
(* targets of its links is as it was before the run, and so is every link  *)
(* target that is not a mapped token: a token in plain prose, or between   *)
(* parentheses that follow no label, is not rewritten.                     *)
(***************************************************************************)
C5_OnlyLinkTargetsRewritten ==
    pc = "done"
      => \A f \in MdFiles :
           /\ OutsideTargets(fs[f]) = OutsideTargets(orig[f])
           /\ Len(Targets(fs[f])) = Len(Targets(orig[f]))
           /\ \A k \in 1..Len(Targets(orig[f])) :
                Targets(orig[f])[k] \notin Keys(short_to_href)
                  => Targets(fs[f])[k] = Targets(orig[f])[k]

(***************************************************************************)
(* C7 as claimed.  At every point of a run a document holds its original   *)
(* content or its fully substituted content, never anything else; a write  *)
(* that failed is logged and leaves the document as it was before the run. *)
(***************************************************************************)
C7_NoPartialWrite ==
    \A f \in MdFiles :
      LET r == ApplyAll(short_to_href, orig[f])
      IN  /\ fs[f] = orig[f] \/ (r.ok /\ fs[f] = r.text)
          /\ iores[f] \in { "openfail", "writefail" }
               => /\ << "Could not write to file", f >> \in log
                  /\ fs[f] = orig[f]

(***************************************************************************)
(* C8 as claimed.  A document whose read failed is logged and not written, *)
(* and the run goes on: it ends by returning, every other .md document     *)
(* having been processed.                                                  *)
(***************************************************************************)
C8_ReadFailureSkipsOneDocument ==
    \A f \in MdFiles :
      iores[f] = "readfail"
        => /\ << "Could not read file", f >> \in log
           /\ writes[f] = 0
           /\ fs[f] = orig[f]
           /\ Terminated
                => /\ pc = "done"
                   /\ \A g \in MdFiles : iores[g] # "none"

(***************************************************************************)
(* C10.  After a run the content of a .md file is determined by its own    *)
(* initial content, the loaded mapping and what became of its own read and *)
(* write, whatever the order of the walk and whatever happened to the      *)
(* other documents; a file whose name does not end in .md is never opened  *)
(* and keeps its content.                                                  *)
(***************************************************************************)
C10_DocumentsIndependent ==
    Terminated
      => /\ \A f \in MdFiles :
              LET r == ApplyAll(short_to_href, orig[f])
              IN  CASE iores[f] = "written" -> r.ok /\ fs[f] = r.text
                    [] iores[f] = "writefail" -> r.ok /\ fs[f] \in ProperPrefixes(r.text)
                    [] OTHER -> fs[f] = orig[f]
         /\ \A f \in Files \ MdFiles :
              opens[f] = 0 /\ writes[f] = 0 /\ fs[f] = orig[f]

\* a run ended in which one document was rewritten, the write of the other one
\* failed, and the file that is no .md file holds a link on a mapped token
C10_Witness ==
    /\ pc = "done"
    /\ iores[FileX] = "written"
    /\ fs[FileX] # orig[FileX]
    /\ iores[FileY] = "writefail"
    /\ HasMappedLink(orig[FileN], Keys(short_to_href))

====
